---- MODULE Spec2Model ----
(***************************************************************************)
(* A model of the ComfyUI-Animagine-Prompt nodes:                          *)
(*   - AnimaginePromptNode.generate_prompt with its CSVHandler             *)
(*     (animagine_node.py, csv_handler.py),                                *)
(*   - TextFileLoader.load_text_line and MultiWildcardLoader               *)
(*     (wildcards_node.py) with the module-level text_file_cache.          *)
(*                                                                         *)
(* A Python str is modelled as a sequence of tokens; concatenation is \o   *)
(* and the empty string is << >>.  Text that the code inspects character   *)
(* by character (file lines, paths, templates) is a sequence of            *)
(* one-character tokens.  Python's None is the empty sequence None and a   *)
(* present value x is Some(x), so that optional values stay comparable.    *)
(***************************************************************************)
EXTENDS Integers, Sequences, FiniteSets, TLC

VARIABLES
    \* ---- AnimaginePromptNode / CSVHandler / state_manager
    inputs,            \* the widget values the host passes to generate_prompt
    disk_csv,          \* the CSV files on disk, by path
    cache,             \* CSVHandler.cache: path -> DataFrame
    current_data,      \* CSVHandler.current_data: None or Some(DataFrame)
    last_csv_path,     \* AnimaginePromptNode.last_csv_path: None or Some(path)
    csv_history,       \* state_manager.csv_history: path -> entry_count
    ret,               \* what the last generate_prompt call returned, None once
                       \* the host has changed a widget
    \* ---- wildcards_node.py
    disk_txt,          \* the text files on disk, by normalized path
    clock,             \* the file system's clock: the latest modification time given out
    text_file_cache,   \* module-level cache: path -> [lines, mod_time]
    last_execution_time, \* module-level dict: node instance -> time of its last run
    rng,               \* the global random generator: None when seeded from the OS
                       \* (random.seed(None)), Some(seed) when seeded with seed
    wc,                \* MultiWildcardLoader's widget values
    out,               \* the last wildcard-node call: its operation, arguments and result;
                       \* None once a widget or a file has changed
    prev,              \* the result of the call before it, when that was the same
                       \* operation with the same arguments; None otherwise
    _animagine_instance, \* api_routes' global node instance: None until first needed
    response,          \* the last answer of reload_csv_endpoint, with its request
    error_log,         \* what logger.log_error has written for the endpoint
    is_changed,        \* the last two calls of MultiWildcardLoader.IS_CHANGED, newest
                       \* first: their inputs and the value returned
    handler_call       \* the last direct call of a CSVHandler method: its operation,
                       \* argument, result and the handler before it; None otherwise

promptVars == <<inputs, disk_csv, cache, current_data, last_csv_path, csv_history, ret>>

textVars == <<disk_txt, clock, text_file_cache, last_execution_time, rng, wc, out, prev>>

apiVars == <<_animagine_instance, response, error_log>>

handlerVars == <<handler_call>>

hostVars == <<is_changed>>

vars == <<promptVars, textVars, apiVars, handlerVars, hostVars>>

None == << >>
Some(x) == <<x>>

(***************************************************************************)
(* str.join: the parts separated by sep.                                   *)
(***************************************************************************)
RECURSIVE Join(_, _)
Join(sep, parts) ==
    IF parts = << >> THEN << >>
    ELSE IF Len(parts) = 1 THEN parts[1]
    ELSE parts[1] \o sep \o Join(sep, Tail(parts))

\* "part for part in parts if part": the non-empty strings of parts, in order
Truthy(parts) == SelectSeq(parts, LAMBDA p : p # << >>)

CommaSpace == <<", ">>

(***************************************************************************)
(* Bounds of the model.                                                    *)
(***************************************************************************)
MaxCsvIndex == 2       \* csv_index ranges over 0..MaxCsvIndex (the widget allows 0..9999)

(***************************************************************************)
(* AnimaginePromptNode: the tag sets and the input widgets.                *)
(***************************************************************************)
RATING_TAGS == <<"safe", "sensitive", "nsfw", "explicit">>

DEFAULT_NEGATIVE_TAGS ==
    << <<"low quality">>, <<"worst quality">>, <<"blurry">>, <<"bad anatomy">>,
       <<"bad hands">>, <<"text">>, <<"error">>, <<"missing fingers">>,
       <<"extra digit">>, <<"fewer digits">>, <<"cropped">>, <<"jpeg artifacts">>,
       <<"signature">>, <<"watermark">>, <<"username">>, <<"artist name">> >>

REQUIRED_COLUMNS == {"GENDER", "CHARACTER", "COPYRIGHT"}

\* The values each widget of INPUT_TYPES takes in the model.
InputDomain ==
    [ positive_prompt |-> { << >>, <<"1girl, solo">> },
      negative_prompt |-> { << >>, <<"lowres">> },
      use_csv         |-> BOOLEAN,
      csv_path        |-> { "", "a.csv", "b.csv", "nocol.csv", "broken.csv", "missing.csv" },
      csv_index       |-> 0 .. MaxCsvIndex,
      use_rating      |-> BOOLEAN,
      rating          |-> { <<RATING_TAGS[1]>>, <<RATING_TAGS[3]>> },
      use_good_tags   |-> BOOLEAN,
      quality_good    |-> { <<"masterpiece, best quality">> },
      score_good      |-> { <<"high score">> },
      use_bad_tags    |-> BOOLEAN,
      quality_bad     |-> { <<"low quality">> },
      score_bad       |-> { <<"bad score, low score">> },
      use_year        |-> BOOLEAN,
      year            |-> { 2024 } ]

\* state_manager.reset_state's defaults, which INPUT_TYPES shows in the widgets
DefaultInputs ==
    [ positive_prompt |-> << >>,
      negative_prompt |-> << >>,
      use_csv         |-> FALSE,
      csv_path        |-> "",
      csv_index       |-> 0,
      use_rating      |-> FALSE,
      rating          |-> <<RATING_TAGS[1]>>,
      use_good_tags   |-> TRUE,
      quality_good    |-> <<"masterpiece, best quality">>,
      score_good      |-> <<"high score">>,
      use_bad_tags    |-> FALSE,
      quality_bad     |-> <<"low quality">>,
      score_bad       |-> <<"bad score, low score">>,
      use_year        |-> FALSE,
      year            |-> 2024 ]

(***************************************************************************)
(* The CSV files on disk.  A file is absent, or present and unparsable, or *)
(* parses to a DataFrame: its header's columns and its rows, each row a    *)
(* function from the columns to cells.                                     *)
(***************************************************************************)
Row(cols, g, c, r) ==
    [ k \in cols |-> IF k = "GENDER" THEN <<g>>
                     ELSE IF k = "CHARACTER" THEN <<c>>
                     ELSE IF k = "COPYRIGHT" THEN <<r>>
                     ELSE <<"-">> ]

AbsentFile == [ exists |-> FALSE, parses |-> FALSE, columns |-> {}, rows |-> << >> ]

CsvDisk ==
    [ p \in InputDomain.csv_path \ {""} |->
        CASE p = "a.csv" ->
               [ exists |-> TRUE, parses |-> TRUE,
                 columns |-> REQUIRED_COLUMNS \cup {"NOTES"},
                 rows |-> << Row(REQUIRED_COLUMNS \cup {"NOTES"}, "1girl", "hatsune miku", "vocaloid"),
                             Row(REQUIRED_COLUMNS \cup {"NOTES"}, "1boy", "kaito", "vocaloid") >> ]
          [] p = "b.csv" ->
               [ exists |-> TRUE, parses |-> TRUE,
                 columns |-> REQUIRED_COLUMNS,
                 rows |-> << Row(REQUIRED_COLUMNS, "1girl", "saber", "fate") >> ]
          [] p = "nocol.csv" ->
               [ exists |-> TRUE, parses |-> TRUE,
                 columns |-> {"GENDER", "CHARACTER"},
                 rows |-> << Row({"GENDER", "CHARACTER"}, "1girl", "rem", "") >> ]
          [] p = "broken.csv" ->
               [ exists |-> TRUE, parses |-> FALSE, columns |-> {}, rows |-> << >> ]
          [] OTHER -> AbsentFile ]

\* os.path.exists(filepath)
PathExists(disk, filepath) == filepath \in DOMAIN disk /\ disk[filepath].exists

\* pd.read_csv(filepath): raises, or yields the DataFrame
read_csv(disk, filepath) ==
    IF PathExists(disk, filepath) /\ disk[filepath].parses
    THEN [ raised |-> FALSE,
           df |-> [ columns |-> disk[filepath].columns, rows |-> disk[filepath].rows ] ]
    ELSE [ raised |-> TRUE, df |-> [ columns |-> {}, rows |-> << >> ] ]

(***************************************************************************)
(* CSVHandler                                                              *)
(***************************************************************************)
\* a mutation of validate_csv_structure: the columns are not looked at
validate_exists_only(disk, filepath) == PathExists(disk, filepath)

validate_csv_structure(disk, filepath) ==
    IF ~PathExists(disk, filepath) THEN FALSE
    ELSE LET r == read_csv(disk, filepath) IN
         IF r.raised THEN FALSE                      \* except Exception: return False
         ELSE LET missing_columns == { col \in REQUIRED_COLUMNS : col \notin r.df.columns } IN
              IF missing_columns # {} THEN FALSE ELSE TRUE

\* a mutation of load_csv: a load that fails forgets the frame loaded before
load_csv_forgets(h, disk, filepath) ==
    IF filepath \in DOMAIN h.cache
    THEN [ ret |-> Some(h.cache[filepath]), h |-> h ]
    ELSE IF ~validate_csv_structure(disk, filepath)
    THEN [ ret |-> None, h |-> [h EXCEPT !.current_data = None] ]
    ELSE [ ret |-> Some(read_csv(disk, filepath).df),
           h |-> [ cache |-> [ p \in DOMAIN h.cache \cup {filepath} |->
                                 IF p = filepath THEN read_csv(disk, filepath).df
                                 ELSE h.cache[p] ],
                   current_data |-> Some(read_csv(disk, filepath).df) ] ]

\* load_csv on a handler [cache, current_data]: the value returned and the handler after it
load_csv(h, disk, filepath) ==
    IF filepath \in DOMAIN h.cache
    THEN [ ret |-> Some(h.cache[filepath]), h |-> h ]
    ELSE IF ~validate_csv_structure(disk, filepath)
    THEN [ ret |-> None, h |-> h ]
    ELSE LET r == read_csv(disk, filepath) IN
         IF r.raised THEN [ ret |-> None, h |-> h ]   \* except Exception: return None
         ELSE [ ret |-> Some(r.df),
                h |-> [ cache |-> [ p \in DOMAIN h.cache \cup {filepath} |->
                                      IF p = filepath THEN r.df ELSE h.cache[p] ],
                        current_data |-> Some(r.df) ] ]

\* DataFrame.iloc[index]: Python indexing, negative indices count from the end
iloc(df, index) ==
    LET n == Len(df.rows) IN
    IF index >= 0 /\ index < n THEN Some(df.rows[index + 1])
    ELSE IF index < 0 /\ index >= -n THEN Some(df.rows[n + index + 1])
    ELSE None                                        \* IndexError

get_entry(h, index) ==
    IF h.current_data = None THEN None
    ELSE LET df == h.current_data[1] IN
         IF index >= Len(df.rows) THEN None
         ELSE LET row == iloc(df, index) IN
              IF row = None \/ ~(REQUIRED_COLUMNS \subseteq DOMAIN row[1])
              THEN None                              \* except Exception: return None
              ELSE Some([ gender    |-> row[1]["GENDER"],
                          character |-> row[1]["CHARACTER"],
                          copyright |-> row[1]["COPYRIGHT"] ])

\* The handler of the node, as the methods called on it directly see it.
Handler == [ cache |-> cache, current_data |-> current_data ]

\* index values passed to get_entry directly: in range, too large, negative
EntryIndexes == -(MaxCsvIndex + 1) .. MaxCsvIndex

HandlerDone(op, arg, result, h) ==
    /\ handler_call' = Some([ op |-> op, arg |-> arg, result |-> result, before |-> Handler ])
    /\ cache' = h.cache
    /\ current_data' = h.current_data
    /\ ret' = None
    /\ UNCHANGED <<inputs, last_csv_path, csv_history>>
    /\ UNCHANGED <<textVars, apiVars, hostVars>>

\* csv_handler.validate_csv_structure(filepath)
ValidateCsv ==
    \E filepath \in InputDomain.csv_path :
        /\ HandlerDone("validate_csv_structure", filepath,
                       validate_csv_structure(disk_csv, filepath), Handler)
        /\ UNCHANGED disk_csv

\* csv_handler.load_csv(filepath)
LoadCsv ==
    \E filepath \in InputDomain.csv_path :
        \E r \in { load_csv(Handler, disk_csv, filepath) } :
            /\ HandlerDone("load_csv", filepath, r.ret, r.h)
            /\ UNCHANGED disk_csv

\* csv_handler.get_entry(index)
GetEntry ==
    \E index \in EntryIndexes :
        /\ HandlerDone("get_entry", index, get_entry(Handler, index), Handler)
        /\ UNCHANGED disk_csv

\* A CSV file is removed from the disk.
RemoveCsv ==
    \E p \in DOMAIN disk_csv :
        /\ disk_csv[p].exists
        /\ disk_csv' = [disk_csv EXCEPT ![p] = AbsentFile]
        /\ handler_call' = None
        /\ ret' = None
        /\ UNCHANGED <<inputs, cache, current_data, last_csv_path, csv_history>>
        /\ UNCHANGED <<textVars, apiVars, hostVars>>

(***************************************************************************)
(* state_manager.add_csv_to_history, keeping each path's entry_count (the  *)
(* timestamps and the use counter are not modelled).                       *)
(***************************************************************************)
add_csv_to_history(hist, filepath, entry_count) ==
    [ p \in DOMAIN hist \cup {filepath} |-> IF p = filepath THEN entry_count ELSE hist[p] ]

(***************************************************************************)
(* AnimaginePromptNode                                                     *)
(***************************************************************************)
\* f"{entry['gender']}, {entry['character']}, {entry['copyright']}"
FormatEntry(entry) ==
    entry.gender \o CommaSpace \o entry.character \o CommaSpace \o entry.copyright

\* _get_csv_entry on a node [h, last_csv_path, csv_history]:
\* the formatted entry (or None) and the node after it
_get_csv_entry(node, disk, csv_path, index) ==
    LET reload == node.last_csv_path # Some(csv_path)
        loaded == load_csv(node.h, disk, csv_path)
        h1     == IF reload THEN loaded.h ELSE node.h
        hist1  == IF reload /\ loaded.ret # None
                  THEN add_csv_to_history(node.csv_history, csv_path, Len(loaded.ret[1].rows))
                  ELSE node.csv_history
        entry  == get_entry(h1, index)
    IN  [ ret  |-> IF entry # None THEN Some(FormatEntry(entry[1])) ELSE None,
          node |-> [ h |-> h1, last_csv_path |-> Some(csv_path), csv_history |-> hist1 ] ]

_build_good_tags(quality_good, score_good) ==
    Join(CommaSpace,
         (IF quality_good # << >> THEN <<quality_good>> ELSE << >>)
         \o (IF score_good # << >> THEN <<score_good>> ELSE << >>))

_build_bad_tags(quality_bad, score_bad) ==
    Join(CommaSpace,
         (IF quality_bad # << >> THEN <<quality_bad>> ELSE << >>)
         \o (IF score_bad # << >> THEN <<score_bad>> ELSE << >>))

\* a mutation of PositiveParts: the rating is appended after the base prompt
PositivePartsRatingLate(in, csv_entry) ==
    (IF in.use_csv /\ in.csv_path # "" /\ csv_entry # None THEN <<csv_entry[1]>> ELSE << >>)
    \o (IF in.positive_prompt # << >> THEN <<in.positive_prompt>> ELSE << >>)
    \o (IF in.use_rating THEN <<in.rating>> ELSE << >>)
    \o (IF in.use_good_tags /\ _build_good_tags(in.quality_good, in.score_good) # << >>
        THEN <<_build_good_tags(in.quality_good, in.score_good)>> ELSE << >>)
    \o (IF in.use_bad_tags /\ _build_bad_tags(in.quality_bad, in.score_bad) # << >>
        THEN <<_build_bad_tags(in.quality_bad, in.score_bad)>> ELSE << >>)
    \o (IF in.use_year THEN << <<"year ", ToString(in.year)>> >> ELSE << >>)

\* generate_prompt's positive_parts, given what _get_csv_entry returned
PositiveParts(in, csv_entry) ==
    (IF in.use_csv /\ in.csv_path # "" /\ csv_entry # None THEN <<csv_entry[1]>> ELSE << >>)
    \o (IF in.use_rating THEN <<in.rating>> ELSE << >>)
    \o (IF in.positive_prompt # << >> THEN <<in.positive_prompt>> ELSE << >>)
    \o (IF in.use_good_tags /\ _build_good_tags(in.quality_good, in.score_good) # << >>
        THEN <<_build_good_tags(in.quality_good, in.score_good)>> ELSE << >>)
    \o (IF in.use_bad_tags /\ _build_bad_tags(in.quality_bad, in.score_bad) # << >>
        THEN <<_build_bad_tags(in.quality_bad, in.score_bad)>> ELSE << >>)
    \o (IF in.use_year THEN << <<"year ", ToString(in.year)>> >> ELSE << >>)

\* a mutation of NegativeParts: the bad tags go to the negative prompt
NegativePartsWithBadTags(in) ==
    DEFAULT_NEGATIVE_TAGS
    \o (IF in.use_bad_tags THEN <<_build_bad_tags(in.quality_bad, in.score_bad)>> ELSE << >>)
    \o (IF in.negative_prompt # << >> THEN <<in.negative_prompt>> ELSE << >>)

\* generate_prompt's negative_parts
NegativeParts(in) ==
    DEFAULT_NEGATIVE_TAGS
    \o (IF in.negative_prompt # << >> THEN <<in.negative_prompt>> ELSE << >>)

\* The host changes one widget; the previous call's result is consumed.
SetInput ==
    \E f \in DOMAIN InputDomain : \E v \in InputDomain[f] :
        /\ inputs[f] # v
        /\ inputs' = [inputs EXCEPT ![f] = v]
        /\ ret' = None
        /\ UNCHANGED <<disk_csv, cache, current_data, last_csv_path, csv_history>>
        /\ UNCHANGED <<textVars, apiVars, hostVars>> /\ handler_call' = None

\* The host runs the node: generate_prompt(**inputs).
generate_prompt ==
    LET in    == inputs
        node  == [ h |-> [ cache |-> cache, current_data |-> current_data ],
                   last_csv_path |-> last_csv_path, csv_history |-> csv_history ]
        useCsv == in.use_csv /\ in.csv_path # ""
        got   == _get_csv_entry(node, disk_csv, in.csv_path, in.csv_index)
        node1 == IF useCsv THEN got.node ELSE node
        csv_entry == IF useCsv THEN got.ret ELSE None
        final_positive == Join(CommaSpace, Truthy(PositiveParts(in, csv_entry)))
        final_negative == Join(CommaSpace, Truthy(NegativeParts(in)))
    IN  /\ cache' = node1.h.cache
        /\ current_data' = node1.h.current_data
        /\ last_csv_path' = node1.last_csv_path
        /\ csv_history' = node1.csv_history
        /\ ret' = Some([ positive |-> final_positive, negative |-> final_negative,
                         csv_called |-> useCsv, csv_entry |-> csv_entry ])
        /\ UNCHANGED <<inputs, disk_csv>>
        /\ UNCHANGED <<textVars, apiVars, hostVars>> /\ handler_call' = None


(***************************************************************************)
(* wildcards_node.py: strings, paths and the text files on disk.           *)
(***************************************************************************)
MaxSeed == 1           \* the seed widgets range over -1..MaxSeed (the widgets allow -1..2^32-1)
MaxTime == 1           \* time.time() is one of the instants 0..MaxTime
MaxLineIndex == 3      \* line_index ranges over -2..MaxLineIndex
MaxClock == 2          \* at most MaxClock rewrites of a text file
MaxTemplateLen == 6    \* a typed template has at most MaxTemplateLen characters

Seeds == -1 .. MaxSeed
Times == 0 .. MaxTime

\* str.strip()/rstrip() with no argument remove these
Whitespace == {" ", "\t", "\n"}

RECURSIVE rstrip(_)
rstrip(s) ==
    IF s # << >> /\ s[Len(s)] \in Whitespace THEN rstrip(SubSeq(s, 1, Len(s) - 1)) ELSE s

RECURSIVE lstrip(_)
lstrip(s) ==
    IF s # << >> /\ s[1] \in Whitespace THEN lstrip(Tail(s)) ELSE s

strip(s) == lstrip(rstrip(s))

\* a local variable: F of the value assigned to it
Bind(x, F(_)) == F(x)

\* d[k] = v on a dict d
SetKey(d, k, v) == [ x \in DOMAIN d \cup {k} |-> IF x = k THEN v ELSE d[x] ]

\* str.split("/")
RECURSIVE SplitPath(_)
SplitPath(p) ==
    IF p = << >> THEN << << >> >>
    ELSE Bind(SplitPath(Tail(p)), LAMBDA rest :
         IF Head(p) = "/" THEN << << >> >> \o rest
         ELSE << <<Head(p)>> \o rest[1] >> \o Tail(rest))

DotDot == <<".", ".">>

\* the component loop of posixpath.normpath
RECURSIVE NormComps(_, _, _)
NormComps(comps, initial_slashes, new_comps) ==
    IF comps = << >> THEN new_comps
    ELSE LET comp == Head(comps) IN
         IF comp = << >> \/ comp = <<".">>
         THEN NormComps(Tail(comps), initial_slashes, new_comps)
         ELSE IF \/ comp # DotDot
                 \/ (initial_slashes = 0 /\ new_comps = << >>)
                 \/ (new_comps # << >> /\ new_comps[Len(new_comps)] = DotDot)
         THEN NormComps(Tail(comps), initial_slashes, Append(new_comps, comp))
         ELSE IF new_comps # << >>
         THEN NormComps(Tail(comps), initial_slashes, SubSeq(new_comps, 1, Len(new_comps) - 1))
         ELSE NormComps(Tail(comps), initial_slashes, new_comps)

\* os.path.normpath (POSIX)
normpath(path) ==
    IF path = << >> THEN <<".">>
    ELSE LET initial_slashes ==
                 IF path[1] # "/" THEN 0
                 ELSE IF Len(path) >= 2 /\ path[2] = "/" /\ ~(Len(path) >= 3 /\ path[3] = "/")
                 THEN 2 ELSE 1
             comps == NormComps(SplitPath(path), initial_slashes, << >>)
             joined == [ i \in 1 .. initial_slashes |-> "/" ] \o Join(<<"/">>, comps)
         IN  IF joined = << >> THEN <<".">> ELSE joined

isabs(path) == path # << >> /\ path[1] = "/"

\* os.path.join(a, b)
PathJoin(a, b) ==
    IF isabs(b) THEN b
    ELSE IF a = << >> \/ a[Len(a)] = "/" THEN a \o b
    ELSE a \o <<"/">> \o b

\* os.path.basename
basename(path) == LET comps == SplitPath(path) IN comps[Len(comps)]

\* os.path.dirname(os.path.abspath(__file__))
ScriptDir == <<"/", "plugin">>

\* The text files of the model, by normalized path.
FileCwdA   == <<"a">>                                      \* relative to the working directory
FileShared == <<"/", "w">>                                 \* an absolute path
FilePlugA  == <<"/", "plugin", "/", "a">>                  \* beside the script
FilePlugB  == <<"/", "plugin", "/", "example_files", "/", "b">>
FileEmpty  == <<"e">>                                      \* holds blank lines only
FileBad    == <<"bad">>                                    \* cannot be read
TxtFiles   == { FileCwdA, FileShared, FilePlugA, FilePlugB, FileEmpty, FileBad }

\* What a text file may hold: a sequence of raw lines, each with its line end.
ContentEmpty == << >>
ContentBlank == << <<" ", "\n">>, <<"\n">> >>
ContentOne   == << <<"x", "\n">> >>
ContentThree == << <<"x", " ", "\t", "\n">>, <<"\n">>, <<" ", "y", "\n">>, <<"z">> >>
ContentBrace == << <<"{", "a", "}", "\n">>, <<"u", "\n">> >>
ContentB     == << <<"v", "\n">>, <<"w", "\n">>, <<"k", "\n">> >>

TxtFile(content, mtime) ==
    [ exists |-> TRUE, readable |-> TRUE, mtime |-> mtime, content |-> content ]

\* a file open() cannot read or decode
TxtUnreadable(mtime) ==
    [ exists |-> TRUE, readable |-> FALSE, mtime |-> mtime, content |-> << >> ]

TxtAbsent == [ exists |-> FALSE, readable |-> FALSE, mtime |-> 0, content |-> << >> ]

TxtDisk ==
    [ p \in TxtFiles |->
        CASE p = FileCwdA   -> TxtFile(ContentThree, 0)
          [] p = FileShared -> TxtFile(ContentOne, 0)
          [] p = FilePlugA  -> TxtFile(ContentBrace, 0)
          [] p = FilePlugB  -> TxtFile(ContentB, 0)
          [] p = FileEmpty  -> TxtFile(ContentBlank, 0)
          [] p = FileBad    -> TxtUnreadable(0) ]

\* os.path.isfile
isfile(disk, path) ==
    LET q == normpath(path) IN q \in DOMAIN disk /\ disk[q].exists

\* os.path.getmtime
getmtime(disk, path) == disk[normpath(path)].mtime

\* a mutation of OpenRaises: every existing file can be read
OpenNeverRaises(disk, path) == FALSE

\* open(path, 'r', encoding='utf-8') raises for such a file
OpenRaises(disk, path) == ~disk[normpath(path)].readable

\* str(e) of the exception open() or the read raises
OpenErrorText(path) == <<"[Errno 13] Permission denied: ">> \o path

\* [line.rstrip() for line in f if line.strip()]
RECURSIVE NonBlankLines(_)
NonBlankLines(content) ==
    IF content = << >> THEN << >>
    ELSE IF strip(Head(content)) # << >>
    THEN <<rstrip(Head(content))>> \o NonBlankLines(Tail(content))
    ELSE NonBlankLines(Tail(content))

ReadLines(disk, path) == NonBlankLines(disk[normpath(path)].content)

\* a mutation of CacheHit: the modification time is not compared
CacheHitAnyTime(tcache, cache_key, file_mod_time) ==
    cache_key \in DOMAIN tcache

\* cache_key in text_file_cache and text_file_cache[cache_key]["mod_time"] == file_mod_time
CacheHit(tcache, cache_key, file_mod_time) ==
    cache_key \in DOMAIN tcache /\ tcache[cache_key].mod_time = file_mod_time

\* random.seed(s); the index random.choice then draws from a list of n items.
\* The generator is deterministic in its seed; this function stands for it.
RandBelow(s, n) == (s * 5 + 3) % n

\* int(current_time * 1000) % (2**32): instants are told apart by this residue
TimeSeed(current_time) == current_time

\* a mutation of PickSeed: the user's seed is ignored
PickSeedTimeOnly(seed, current_time) == TimeSeed(current_time)

\* random_seed: time-based for seed -1, else the user's seed
PickSeed(seed, current_time) ==
    IF seed = -1 THEN TimeSeed(current_time) ELSE seed

\* random.seed(random_seed); random.choice(lines); random.seed(None)
\* on the generator g: the line and the generator afterwards
RandomChoice(g, lines, random_seed) ==
    LET g1 == Some(random_seed)
        selected_line == lines[RandBelow(g1[1], Len(lines)) + 1]
    IN  [ line |-> selected_line, rng |-> None ]

\* a mutation of IndexInRange: the upper bound is off by one
IndexInRangeOffByOne(line_index, lines) ==
    ~(line_index < 0 \/ line_index >= Len(lines) - 1)

\* not (line_index < 0 or line_index >= len(lines))
IndexInRange(line_index, lines) ==
    ~(line_index < 0 \/ line_index >= Len(lines))

\* f"... out of range (0-{len(lines)-1})"
RangeErrorText(line_index, lines) ==
    <<"Error: Line index ", ToString(line_index), " out of range (0-",
      ToString(Len(lines) - 1), ")">>


(***************************************************************************)
(* TextFileLoader.  The module-level state the wildcard nodes share is     *)
(* threaded through the operators as g = [cache, let, rng]                 *)
(* (text_file_cache, last_execution_time, the global random generator).    *)
(* Each load reports the string it yields, whether that is a selected      *)
(* line or an error, and the cache key and line list it selected from.     *)
(***************************************************************************)
Loaded(text, kind, key, lines, g) ==
    [ text |-> text, kind |-> kind, key |-> key, lines |-> lines, g |-> g ]

load_text_line(g, disk, self, path_arg, line_index, seed, current_time) ==
    Bind([g EXCEPT !.let = SetKey(g.let, self, current_time)], LAMBDA g1 :
    Bind(normpath(strip(path_arg)), LAMBDA file_path :
    IF ~isfile(disk, file_path)
    THEN Loaded(<<"Error: File not found at ">> \o file_path, "error", None, None, g1)
    ELSE
    Bind(getmtime(disk, file_path), LAMBDA file_mod_time :
    Bind(file_path, LAMBDA cache_key :
    Bind(CacheHit(g1.cache, cache_key, file_mod_time), LAMBDA hit :
    IF ~hit /\ OpenRaises(disk, file_path)
    THEN Loaded(<<"Error loading file: ">> \o OpenErrorText(file_path), "error", None, None, g1)
    ELSE
    Bind(IF hit THEN g1.cache[cache_key].lines ELSE ReadLines(disk, file_path), LAMBDA lines :
    Bind(IF hit THEN g1
         ELSE [g1 EXCEPT !.cache = SetKey(g1.cache, cache_key,
                                          [ lines |-> lines, mod_time |-> file_mod_time ])],
         LAMBDA g2 :
    IF lines = << >>
    THEN Loaded(<<"Error: File is empty">>, "error", Some(cache_key), Some(lines), g2)
    ELSE IF line_index = -1
    THEN Bind(RandomChoice(g2.rng, lines, PickSeed(seed, current_time)), LAMBDA c :
         Loaded(c.line, "line", Some(cache_key), Some(lines), [g2 EXCEPT !.rng = c.rng]))
    ELSE IF ~IndexInRange(line_index, lines)
    THEN Loaded(RangeErrorText(line_index, lines), "error", Some(cache_key), Some(lines), g2)
    ELSE Loaded(lines[line_index + 1], "line", Some(cache_key), Some(lines), g2))))))))

(***************************************************************************)
(* MultiWildcardLoader                                                     *)
(***************************************************************************)
NumSlots == 5

_resolve_file_path(disk, path_arg) ==
    IF path_arg = << >> \/ strip(path_arg) = << >> THEN None
    ELSE Bind(strip(path_arg), LAMBDA file_path :
         Bind(PathJoin(ScriptDir, file_path), LAMBDA relative_path :
         Bind(PathJoin(PathJoin(ScriptDir, <<"example_files">>), file_path),
              LAMBDA example_files_path :
         IF isabs(file_path) /\ isfile(disk, file_path) THEN Some(file_path)
         ELSE IF isfile(disk, relative_path) THEN Some(relative_path)
         ELSE IF isfile(disk, example_files_path) THEN Some(example_files_path)
         ELSE Some(file_path))))

\* current_time is read only on the random path
_load_wildcard_line(g, disk, file_path, line_index, seed, current_time) ==
    Bind(_resolve_file_path(disk, file_path), LAMBDA resolved :
    IF resolved = None
    THEN Loaded(<<"Error: Empty file path">>, "error", None, None, g)
    ELSE
    Bind(normpath(resolved[1]), LAMBDA resolved_path :
    IF ~isfile(disk, resolved_path)
    THEN Loaded(<<"Error: File not found at ">> \o resolved_path, "error", None, None, g)
    ELSE
    Bind(getmtime(disk, resolved_path), LAMBDA file_mod_time :
    Bind(resolved_path, LAMBDA cache_key :
    Bind(CacheHit(g.cache, cache_key, file_mod_time), LAMBDA hit :
    IF ~hit /\ OpenRaises(disk, resolved_path)
    THEN Loaded(<<"Error loading ">> \o basename(file_path) \o <<": ">>
                  \o OpenErrorText(resolved_path), "error", None, None, g)
    ELSE
    Bind(IF hit THEN g.cache[cache_key].lines ELSE ReadLines(disk, resolved_path),
         LAMBDA lines :
    Bind(IF hit THEN g
         ELSE [g EXCEPT !.cache = SetKey(g.cache, cache_key,
                                         [ lines |-> lines, mod_time |-> file_mod_time ])],
         LAMBDA g2 :
    IF lines = << >>
    THEN Loaded(<<"Error: File ">> \o basename(resolved_path) \o <<" is empty">>,
                "error", Some(cache_key), Some(lines), g2)
    ELSE IF line_index = -1
    THEN Bind(RandomChoice(g2.rng, lines, PickSeed(seed, current_time)), LAMBDA c :
         Loaded(c.line, "line", Some(cache_key), Some(lines), [g2 EXCEPT !.rng = c.rng]))
    ELSE IF ~IndexInRange(line_index, lines)
    THEN Loaded(RangeErrorText(line_index, lines) \o <<" for ">> \o basename(resolved_path),
                "error", Some(cache_key), Some(lines), g2)
    ELSE Loaded(lines[line_index + 1], "line", Some(cache_key), Some(lines), g2))))))))

\* a mutation of WildcardSeed: every wildcard is given the node's seed
WildcardSeedNoOffset(seed, i) == seed

\* wildcard_seed: -1 stays -1, else the seed offset by the position
WildcardSeed(seed, i) == IF seed = -1 THEN -1 ELSE seed + i

\* a mutation of SlotSkipped: a disabled slot is loaded all the same
SlotSkippedPathOnly(slot) ==
    slot.path = << >> \/ strip(slot.path) = << >>

\* not enabled or not file_path or not file_path.strip()
SlotSkipped(slot) ==
    ~slot.enabled \/ slot.path = << >> \/ strip(slot.path) = << >>

\* the loop of _process_slots_mode from slot i on; ts[i] is the instant time.time()
\* gives while slot i is loaded; loads collects what each processed slot yielded
RECURSIVE SlotsFrom(_, _, _, _, _, _, _)
SlotsFrom(i, g, disk, seed, slots, ts, loads) ==
    IF i > NumSlots THEN [ g |-> g, loads |-> loads ]
    ELSE IF SlotSkipped(slots[i]) THEN SlotsFrom(i + 1, g, disk, seed, slots, ts, loads)
    ELSE Bind(_load_wildcard_line(g, disk, slots[i].path, slots[i].line_index,
                                  WildcardSeed(seed, i), ts[i]), LAMBDA r :
         SlotsFrom(i + 1, r.g, disk, seed, slots, ts,
                   Append(loads, [ slot |-> i, text |-> r.text, kind |-> r.kind,
                                   key |-> r.key, lines |-> r.lines,
                                   seed |-> WildcardSeed(seed, i) ])))

\* a mutation of Texts: the error strings are left out of what is joined
TextsWithoutErrors(loads) ==
    LET Kept == SelectSeq(loads, LAMBDA l : l.kind # "error")
    IN  [ k \in 1 .. Len(Kept) |-> Kept[k].text ]

Texts(loads) == [ k \in 1 .. Len(loads) |-> loads[k].text ]

_process_slots_mode(g, disk, separator, seed, slots, ts) ==
    Bind(SlotsFrom(1, g, disk, seed, slots, ts, << >>), LAMBDA done :
    Bind(Texts(done.loads), LAMBDA selected_lines :
    Bind(IF selected_lines = << >> THEN <<"No wildcards loaded">>
         ELSE Join(separator, selected_lines), LAMBDA combined_text :
    [ ret |-> <<combined_text, combined_text>>, g |-> done.g, loads |-> done.loads ])))

\* the index of the first "}" of s at or after i, 0 when there is none
RECURSIVE FirstClose(_, _)
FirstClose(s, i) ==
    IF i > Len(s) THEN 0 ELSE IF s[i] = "}" THEN i ELSE FirstClose(s, i + 1)

\* re.findall(r'\{([^}]+)\}', s) scanning from position i: the names, left to right
RECURSIVE FindAllFrom(_, _)
FindAllFrom(s, i) ==
    IF i > Len(s) THEN << >>
    ELSE IF s[i] = "{" /\ FirstClose(s, i + 1) >= i + 2
    THEN <<SubSeq(s, i + 1, FirstClose(s, i + 1) - 1)>> \o FindAllFrom(s, FirstClose(s, i + 1) + 1)
    ELSE FindAllFrom(s, i + 1)

\* the first index at or after i where old occurs in s, 0 when it does not
RECURSIVE FindFrom(_, _, _)
FindFrom(s, old, i) ==
    IF i + Len(old) - 1 > Len(s) THEN 0
    ELSE IF SubSeq(s, i, i + Len(old) - 1) = old THEN i
    ELSE FindFrom(s, old, i + 1)

\* s.replace(old, new, 1)
ReplaceFirst(s, old, new) ==
    LET at == FindFrom(s, old, 1) IN
    IF at = 0 THEN s
    ELSE SubSeq(s, 1, at - 1) \o new \o SubSeq(s, at + Len(old), Len(s))

\* the loop of _process_template_mode from the i-th (0-based) placeholder on
RECURSIVE TemplateFrom(_, _, _, _, _, _, _, _)
TemplateFrom(i, placeholders, g, disk, seed, ts, result_text, loads) ==
    IF i >= Len(placeholders) THEN [ g |-> g, result_text |-> result_text, loads |-> loads ]
    ELSE Bind(placeholders[i + 1], LAMBDA filename :
         Bind(_load_wildcard_line(g, disk, filename, -1, WildcardSeed(seed, i), ts[i + 1]),
              LAMBDA r :
         Bind(<<"{">> \o filename \o <<"}">>, LAMBDA placeholder :
         TemplateFrom(i + 1, placeholders, r.g, disk, seed, ts,
                      ReplaceFirst(result_text, placeholder, r.text),
                      Append(loads, [ slot |-> i, text |-> r.text, kind |-> r.kind,
                                      key |-> r.key, lines |-> r.lines,
                                      seed |-> WildcardSeed(seed, i) ])))))

_process_template_mode(g, disk, template_text, seed, ts) ==
    Bind(FindAllFrom(template_text, 1), LAMBDA placeholders :
    IF placeholders = << >>
    THEN [ ret |-> <<template_text, template_text>>, g |-> g, loads |-> << >> ]
    ELSE Bind(TemplateFrom(0, placeholders, g, disk, seed, ts, template_text, << >>),
              LAMBDA done :
         [ ret |-> <<done.result_text, done.result_text>>, g |-> done.g,
           loads |-> done.loads ]))

load_multiple_wildcards(g, disk, self, w, current_time, ts) ==
    LET g1 == [g EXCEPT !.let = SetKey(g.let, self, current_time)] IN
    IF w.mode = "template"
    THEN _process_template_mode(g1, disk, w.template_text, w.seed, ts)
    ELSE _process_slots_mode(g1, disk, w.separator, w.seed, w.slots, ts)

(***************************************************************************)
(* MultiWildcardLoader.IS_CHANGED.  Its strings are sequences of           *)
(* characters, so that the f-string's joining can be followed.             *)
(***************************************************************************)
MaxTextLen == 1

\* str(n) of an integer
RECURSIVE StrNat(_)
StrNat(n) == IF n < 10 THEN <<ToString(n)>> ELSE StrNat(n \div 10) \o <<ToString(n % 10)>>

StrInt(n) == IF n < 0 THEN <<"-">> \o StrNat(-n) ELSE StrNat(n)

\* str(b) of a boolean
StrBool(b) == IF b THEN <<"T", "r", "u", "e">> ELSE <<"F", "a", "l", "s", "e">>

\* the mode combo's value, character by character
ModeText(mode) ==
    IF mode = "template" THEN <<"t", "e", "m", "p", "l", "a", "t", "e">>
    ELSE <<"s", "l", "o", "t", "s">>

\* the key f"wildcard_{i}_{field}" of kwargs
WildcardKey(i, field) == <<"wildcard", i, field>>

\* kwargs.get(key, default)
kwargs_get(kwargs, key, default) == IF key \in DOMAIN kwargs THEN kwargs[key] ELSE default

\* hashlib.md5(params_str.encode()).hexdigest(), the hash taken as free of
\* collisions: the digest stands for the string digested
md5_hexdigest(params_str) == [ md5 |-> params_str ]

\* the loop over the slots from slot i on, appending to params_str
RECURSIVE ParamsFrom(_, _, _)
ParamsFrom(i, params_str, kwargs) ==
    IF i > NumSlots THEN params_str
    ELSE LET path       == kwargs_get(kwargs, WildcardKey(i, "path"), << >>)
             enabled    == kwargs_get(kwargs, WildcardKey(i, "enabled"), TRUE)
             line_index == kwargs_get(kwargs, WildcardKey(i, "line_index"), -1)
         IN  ParamsFrom(i + 1,
                        params_str \o <<"_">> \o path \o <<"_">> \o StrBool(enabled)
                                   \o <<"_">> \o StrInt(line_index),
                        kwargs)

IS_CHANGED(mode, template_text, separator, seed, kwargs) ==
    md5_hexdigest(ParamsFrom(1, ModeText(mode) \o <<"_">> \o template_text \o <<"_">>
                                 \o separator \o <<"_">> \o StrInt(seed),
                             kwargs))

\* the strings typed into template_text, separator and a slot's path
TypedTexts == UNION { [ 1 .. n -> {"a", "_"} ] : n \in 0 .. MaxTextLen }

\* the slot inputs the host passes: none, slot 1 at its defaults, slot 1 set
SlotKwargs(path, enabled, line_index) ==
    [ k \in { WildcardKey(1, f) : f \in {"path", "enabled", "line_index"} } |->
        CASE k[3] = "path" -> path
          [] k[3] = "enabled" -> enabled
          [] OTHER -> line_index ]

ChangedKwargs ==
    { << >>, SlotKwargs(<< >>, TRUE, -1), SlotKwargs(<<"a">>, FALSE, 0) }

ChangedInputs ==
    [ mode : {"slots", "template"}, template_text : TypedTexts, separator : TypedTexts,
      seed : {-1, MaxSeed}, kwargs : ChangedKwargs ]

\* The host asks MultiWildcardLoader.IS_CHANGED whether the node must run again.
IsChanged ==
    \E in \in ChangedInputs :
        /\ is_changed' =
               << [ inputs |-> in,
                    value |-> IS_CHANGED(in.mode, in.template_text, in.separator,
                                         in.seed, in.kwargs) ] >>
               \o (IF is_changed = << >> THEN << >> ELSE << is_changed[1] >>)
        /\ UNCHANGED <<promptVars, textVars, apiVars, handlerVars>>

(***************************************************************************)
(* The wildcard nodes' inputs and actions.                                 *)
(***************************************************************************)
TextFileLoaderId == "TextFileLoader"            \* id(self) of the one TextFileLoader
MultiWildcardLoaderId == "MultiWildcardLoader"  \* id(self) of the one MultiWildcardLoader

DefaultSlot == [ path |-> << >>, enabled |-> TRUE, line_index |-> -1 ]

DefaultTemplate ==
    << "{", "expressions.txt", "}", " ", "{", "poses.txt", "}", " wearing ",
       "{", "clothing.txt", "}", " in a ", "{", "scenarios.txt", "}" >>

\* the defaults of MultiWildcardLoader.INPUT_TYPES
DefaultWidgets ==
    [ mode |-> "slots", template_text |-> DefaultTemplate, separator |-> <<", ">>,
      seed |-> -1, slots |-> [ i \in 1 .. NumSlots |-> DefaultSlot ] ]

\* file_path values given to TextFileLoader: existing files (one spelled with
\* blanks and a "./"), a blank-only one, an unreadable one, a missing one, ""
TextPathInputs ==
    { FileShared, <<" ", ".", "/", "a", " ">>, FileEmpty, FileBad, <<"m">>, << >> }

\* spellings of the shared file's path
SharedPathInputs == { FileShared, <<"/", ".", "/", "w">> }

\* time.time() read n times in a row: instants that do not decrease
Instants(n) == { ts \in [1 .. n -> Times] : \A i \in 1 .. n - 1 : ts[i] <= ts[i + 1] }

\* what a rewrite may put into a file
WriteContents == { ContentEmpty, ContentBlank, ContentOne, ContentThree }

\* slot settings: the shared absolute file, for the runs that interleave with rewrites
SharedSlotValues ==
    { DefaultSlot,
      [ path |-> FileShared, enabled |-> TRUE, line_index |-> -1 ],
      [ path |-> FileShared, enabled |-> TRUE, line_index |-> 0 ] }

\* slot settings over the plugin's own files: a file beside the script, one in
\* example_files, a missing one, a blank path, disabled, indexed in and out of range
SlotValues ==
    { DefaultSlot,
      [ path |-> <<"a">>, enabled |-> TRUE, line_index |-> -1 ],
      [ path |-> <<"a">>, enabled |-> FALSE, line_index |-> -1 ],
      [ path |-> <<" ", "b">>, enabled |-> TRUE, line_index |-> 1 ],
      [ path |-> <<"b">>, enabled |-> TRUE, line_index |-> MaxLineIndex ],
      [ path |-> <<"m">>, enabled |-> TRUE, line_index |-> -1 ],
      [ path |-> <<" ">>, enabled |-> TRUE, line_index |-> -1 ] }

\* the settings the later slots take
FewSlotValues ==
    { DefaultSlot,
      [ path |-> <<"b">>, enabled |-> TRUE, line_index |-> -1 ] }

\* the settings tried per slot: all of them for the first two slots, the
\* default alone for the middle ones, the few for the last
SlotDomain(i) ==
    IF i <= 2 THEN SlotValues
    ELSE IF i = NumSlots THEN FewSlotValues
    ELSE { DefaultSlot }

Separators == { <<", ">>, <<" ">> }

\* templates set as a whole
Templates ==
    { DefaultTemplate,
      <<"{", "a", "}", " ", "{", "a", "}", " ", "{", "b", "}">> }

\* slot settings whose load fails: a missing file, one with blank lines only,
\* one that cannot be read, an index out of range; and one that loads
FailingSlotValues ==
    { DefaultSlot,
      [ path |-> <<"m">>, enabled |-> TRUE, line_index |-> -1 ],
      [ path |-> FileEmpty, enabled |-> TRUE, line_index |-> -1 ],
      [ path |-> FileBad, enabled |-> TRUE, line_index |-> 0 ],
      [ path |-> <<"b">>, enabled |-> TRUE, line_index |-> MaxLineIndex ],
      [ path |-> <<"b">>, enabled |-> TRUE, line_index |-> 0 ] }

\* templates whose placeholders name such files
FailingTemplates ==
    { <<"{", "m", "}", " ", "{", "e", "}">>,
      <<"{", "b", "}", "{", "bad", "}">>,
      <<"{", "e", "}", " ", "{", "b", "}">>,
      <<"x">> }

\* the characters typed into the template widget
TemplateChars == { "{", "}", "a" }

Globals == [ cache |-> text_file_cache, let |-> last_execution_time, rng |-> rng ]

\* What a call leaves behind: the module state, its record in out, and in prev
\* the previous result when that call was the same operation on the same arguments.
Finish(op, args, result, g, loads) ==
    /\ text_file_cache' = g.cache
    /\ last_execution_time' = g.let
    /\ rng' = g.rng
    /\ out' = Some([ op |-> op, args |-> args, result |-> result, loads |-> loads ])
    /\ prev' = IF out # None /\ out[1].op = op /\ out[1].args = args
               THEN Some(out[1].result) ELSE None

\* A text file is rewritten: new content, new modification time.
WriteFile(p) ==
    \E content \in WriteContents :
        /\ clock < MaxClock
        /\ clock' = clock + 1
        /\ disk_txt' = [disk_txt EXCEPT ![p] = TxtFile(content, clock + 1)]
        /\ out' = None /\ prev' = None
        /\ UNCHANGED <<text_file_cache, last_execution_time, rng, wc>>
        /\ UNCHANGED <<promptVars, apiVars, handlerVars, hostVars>>

\* A text file is rewritten with bytes open() cannot decode.
WriteUndecodable(p) ==
    /\ clock < MaxClock
    /\ clock' = clock + 1
    /\ disk_txt' = [disk_txt EXCEPT ![p] = TxtUnreadable(clock + 1)]
    /\ out' = None /\ prev' = None
    /\ UNCHANGED <<text_file_cache, last_execution_time, rng, wc>>
    /\ UNCHANGED <<promptVars, apiVars, handlerVars, hostVars>>

\* A text file is removed.
DeleteFile(p) ==
    /\ disk_txt[p].exists
    /\ disk_txt' = [disk_txt EXCEPT ![p] = TxtAbsent]
    /\ out' = None /\ prev' = None
    /\ UNCHANGED <<clock, text_file_cache, last_execution_time, rng, wc>>
    /\ UNCHANGED <<promptVars, apiVars, handlerVars, hostVars>>

\* The host runs TextFileLoader.load_text_line(file_path, line_index, seed).
LoadTextLine(paths, indexes, seeds) ==
    \E file_path \in paths, line_index \in indexes,
       seed \in seeds, current_time \in Times :
        /\ \E r \in { load_text_line(Globals, disk_txt, TextFileLoaderId,
                                      file_path, line_index, seed, current_time) } :
               Finish("load_text_line",
                      [ file_path |-> file_path, line_index |-> line_index, seed |-> seed ],
                      <<r.text>>, r.g,
                      << [ slot |-> 0, text |-> r.text, kind |-> r.kind,
                           key |-> r.key, lines |-> r.lines ] >>)
        /\ UNCHANGED <<disk_txt, clock, wc>>
        /\ UNCHANGED <<promptVars, apiVars, handlerVars, hostVars>>

\* The host changes a widget of MultiWildcardLoader.
SetWidgets(w) ==
    /\ w # wc
    /\ wc' = w
    /\ out' = None /\ prev' = None
    /\ UNCHANGED <<disk_txt, clock, text_file_cache, last_execution_time, rng>>
    /\ UNCHANGED <<promptVars, apiVars, handlerVars, hostVars>>

SetMode == \E m \in {"slots", "template"} : SetWidgets([wc EXCEPT !.mode = m])

SetSeparator == \E sep \in Separators : SetWidgets([wc EXCEPT !.separator = sep])

SetSeed == \E seed \in Seeds : SetWidgets([wc EXCEPT !.seed = seed])

SetSlot(i, v) == SetWidgets([wc EXCEPT !.slots[i] = v])

SetTemplate == \E t \in Templates : SetWidgets([wc EXCEPT !.template_text = t])

ClearTemplate == SetWidgets([wc EXCEPT !.template_text = << >>])

TypeTemplate ==
    \E c \in TemplateChars :
        /\ Len(wc.template_text) < MaxTemplateLen
        /\ SetWidgets([wc EXCEPT !.template_text = Append(wc.template_text, c)])

\* The host runs MultiWildcardLoader.load_multiple_wildcards(**wc).
LoadMultipleWildcards ==
    \E now \in Instants(NumSlots + 1) :
        LET current_time == now[1]
            ts == [ i \in 1 .. NumSlots |-> now[i + 1] ]
        IN  /\ \E r \in { load_multiple_wildcards(Globals, disk_txt, MultiWildcardLoaderId,
                                                   wc, current_time, ts) } :
                   Finish("load_multiple_wildcards", wc, r.ret, r.g, r.loads)
            /\ UNCHANGED <<disk_txt, clock, wc>>
            /\ UNCHANGED <<promptVars, apiVars, handlerVars, hostVars>>

(***************************************************************************)
(* MultilineTextInput                                                      *)
(***************************************************************************)
MultilineTextInputId == "MultilineTextInput"    \* id(self) of the one MultilineTextInput

\* the options of a variant body: str.split("|")
RECURSIVE SplitVariants(_)
SplitVariants(body) ==
    IF body = << >> THEN << << >> >>
    ELSE Bind(SplitVariants(Tail(body)), LAMBDA rest :
         IF Head(body) = "|" THEN << << >> >> \o rest
         ELSE << <<Head(body)>> \o rest[1] >> \o Tail(rest))

\* RandomPromptGenerator().generate(text, num_images=1)[0] on text from position i:
\* each {x|y} variant gives the option the generator picks, other text is kept;
\* None when the parser raises, as it does on a "{" that is never closed
RECURSIVE GenerateFrom(_, _, _)
GenerateFrom(text, i, pick) ==
    IF i > Len(text) THEN Some(<< >>)
    ELSE IF text[i] = "{" /\ FirstClose(text, i + 1) = 0 THEN None
    ELSE IF text[i] = "{"
    THEN Bind(SplitVariants(SubSeq(text, i + 1, FirstClose(text, i + 1) - 1)), LAMBDA opts :
         Bind(GenerateFrom(text, FirstClose(text, i + 1) + 1, pick), LAMBDA rest :
         IF rest = None THEN None
         ELSE Some(opts[(pick % Len(opts)) + 1] \o rest[1])))
    ELSE Bind(GenerateFrom(text, i + 1, pick), LAMBDA rest :
         IF rest = None THEN None ELSE Some(<<text[i]>> \o rest[1]))

\* a mutation of DynamicOff: the text is processed whatever the switch says
DynamicOffNever(use_dynamic_prompts) == FALSE

\* if not use_dynamic_prompts
DynamicOff(use_dynamic_prompts) == ~use_dynamic_prompts

\* drawn is what random.randint(0, 2**32 - 1) gives, pick the generator's choice
output_text(g, self, text, use_dynamic_prompts, seed, current_time, drawn, pick) ==
    IF DynamicOff(use_dynamic_prompts) THEN [ ret |-> <<text>>, g |-> g ]
    ELSE
    Bind([g EXCEPT !.let = SetKey(g.let, self, current_time)], LAMBDA g1 :
    Bind(IF seed = -1 THEN drawn ELSE seed, LAMBDA actual_seed :
    Bind([g1 EXCEPT !.rng = Some(actual_seed)], LAMBDA g2 :
    Bind(GenerateFrom(text, 1, pick), LAMBDA processed :
    IF processed = None
    THEN [ ret |-> << <<"Dynamic Prompts Error: ", "parse error", "\nOriginal text: ">>
                      \o text >>,
           g |-> g2 ]
    ELSE [ ret |-> <<processed[1]>>, g |-> [g2 EXCEPT !.rng = None] ]))))

\* texts typed into the node: plain, empty, a variant, a brace left open
InputTexts ==
    { << >>, <<"a", " ", "b">>, <<"{", "a", "|", "b", "}", " ", "c">>, <<"{", "a", "|">> }

\* The host runs MultilineTextInput.output_text(text, use_dynamic_prompts, seed).
OutputText ==
    \E text \in InputTexts, use_dynamic_prompts \in BOOLEAN, seed \in Seeds,
       current_time \in Times, drawn \in 0 .. MaxSeed, pick \in 0 .. 1 :
        /\ \E r \in { output_text(Globals, MultilineTextInputId, text, use_dynamic_prompts,
                                   seed, current_time, drawn, pick) } :
               Finish("output_text",
                      [ text |-> text, use_dynamic_prompts |-> use_dynamic_prompts,
                        seed |-> seed ],
                      r.ret, r.g, << >>)
        /\ UNCHANGED <<disk_txt, clock, wc>>
        /\ UNCHANGED <<promptVars, apiVars, handlerVars, hostVars>>

(***************************************************************************)
(* api_routes: POST /animagine/reload_csv.  A call either returns a value  *)
(* or raises; the endpoint's try/except turns both into a response.        *)
(***************************************************************************)
MaxLog == 2

Returned(value) == [ raised |-> FALSE, type |-> "", value |-> value ]

Raised(type, message) == [ raised |-> TRUE, type |-> type, value |-> message ]

\* request bodies: not JSON, JSON that is no object, and objects without csv_path,
\* with an empty one, and with each path of the model
RequestBodies ==
    { [ kind |-> "invalid", csv_path |-> None ],
      [ kind |-> "array", csv_path |-> None ],
      [ kind |-> "object", csv_path |-> None ] }
    \cup { [ kind |-> "object", csv_path |-> Some(p) ] : p \in InputDomain.csv_path }

\* await request.json()
request_json(body) ==
    IF body.kind = "invalid"
    THEN Raised("JSONDecodeError", "Expecting value")
    ELSE Returned(body)

\* data.get('csv_path')
data_get_csv_path(data) ==
    IF data.kind # "object"
    THEN Raised("AttributeError", "'list' object has no attribute 'get'")
    ELSE Returned(data.csv_path)

\* get_animagine_instance(): the global after the call
get_animagine_instance(instance) ==
    IF instance = None THEN Some("AnimaginePromptNode") ELSE instance

\* the methods class AnimaginePromptNode defines
AnimaginePromptNodeMethods ==
    { "__init__", "INPUT_TYPES", "_build_good_tags", "_build_bad_tags",
      "_get_csv_entry", "generate_prompt" }

\* animagine_node.reload_csv(csv_path): the attribute lookup on the instance
reload_csv(csv_path) ==
    IF "reload_csv" \notin AnimaginePromptNodeMethods
    THEN Raised("AttributeError",
                "'AnimaginePromptNode' object has no attribute 'reload_csv'")
    ELSE Returned([ success |-> FALSE ])

json_response(body, status) == [ body |-> body, status |-> status ]

\* reload_csv_endpoint(request): the response, the global instance afterwards and
\* the exception handed to logger.log_error, if any
reload_csv_endpoint(instance, body) ==
    Bind(request_json(body), LAMBDA data :
    IF data.raised
    THEN [ resp |-> json_response([ success |-> FALSE,
                                    error |-> <<"Invalid JSON in request body">> ], 400),
           instance |-> instance, logged |-> None ]
    ELSE
    Bind(data_get_csv_path(data.value), LAMBDA csv_path :
    IF csv_path.raised
    THEN [ resp |-> json_response([ success |-> FALSE,
                                    error |-> <<"Internal server error: ", csv_path.value>> ],
                                  500),
           instance |-> instance, logged |-> Some(csv_path.type) ]
    ELSE IF csv_path.value = None \/ csv_path.value = Some("")
    THEN [ resp |-> json_response([ success |-> FALSE,
                                    error |-> <<"csv_path is required">> ], 400),
           instance |-> instance, logged |-> None ]
    ELSE
    Bind(reload_csv(csv_path.value[1]), LAMBDA result :
    IF result.raised
    THEN [ resp |-> json_response([ success |-> FALSE,
                                    error |-> <<"Internal server error: ", result.value>> ],
                                  500),
           instance |-> get_animagine_instance(instance), logged |-> Some(result.type) ]
    ELSE [ resp |-> json_response(result.value,
                                  IF result.value.success THEN 200 ELSE 400),
           instance |-> get_animagine_instance(instance), logged |-> None ])))

\* logger.log_error(e, "CSV Reload API", {"request_data": str(data)})
log_error(log, type, context, details) ==
    Append(log, [ context |-> context, type |-> type, details |-> details ])

\* A client posts to /animagine/reload_csv.
ReloadCsvEndpoint ==
    \E body \in RequestBodies :
        \E r \in { reload_csv_endpoint(_animagine_instance, body) } :
            /\ r.logged # None => Len(error_log) < MaxLog
            /\ response' = Some([ request |-> body, body |-> r.resp.body,
                                  status |-> r.resp.status ])
            /\ _animagine_instance' = r.instance
            /\ error_log' = IF r.logged = None THEN error_log
                            ELSE log_error(error_log, r.logged[1], "CSV Reload API", body)
            /\ UNCHANGED <<promptVars, textVars, handlerVars, hostVars>>

(***************************************************************************)
(* Initial state and specifications.                                       *)
(***************************************************************************)
InitPrompt ==
    /\ inputs = DefaultInputs
    /\ disk_csv = CsvDisk
    /\ cache = << >>
    /\ current_data = None
    /\ last_csv_path = None
    /\ csv_history = << >>
    /\ ret = None

InitText ==
    /\ disk_txt = TxtDisk
    /\ clock = 0
    /\ text_file_cache = << >>
    /\ last_execution_time = << >>
    /\ rng = None
    /\ wc = DefaultWidgets
    /\ out = None
    /\ prev = None

InitApi ==
    /\ _animagine_instance = None
    /\ response = None
    /\ error_log = << >>

Init == InitPrompt /\ InitText /\ InitApi /\ handler_call = None /\ is_changed = << >>

\* AnimaginePromptNode under the host's widget changes and runs
NextPrompt ==
    \/ SetInput
    \/ generate_prompt

SpecPrompt == Init /\ [][NextPrompt]_vars

\* CSVHandler's methods called directly, while CSV files are removed
NextHandler ==
    \/ ValidateCsv
    \/ LoadCsv
    \/ GetEntry
    \/ RemoveCsv

SpecHandler == Init /\ [][NextHandler]_vars

\* TextFileLoader alone, over unchanged files
NextLine ==
    \/ LoadTextLine(TextPathInputs, -2 .. MaxLineIndex, Seeds)

SpecLine == Init /\ [][NextLine]_vars

\* Both loaders on the shared text file while it is rewritten and removed
NextText ==
    \/ WriteFile(FileShared)
    \/ WriteUndecodable(FileShared)
    \/ DeleteFile(FileShared)
    \/ LoadTextLine(SharedPathInputs, -1 .. 0, {-1})
    \/ \E v \in SharedSlotValues : SetSlot(1, v)
    \/ LoadMultipleWildcards

SpecText == Init /\ [][NextText]_vars

\* MultiWildcardLoader in slots mode over unchanged files, its slots set freely
NextSlots ==
    \/ SetSeparator
    \/ SetSeed
    \/ \E i \in 1 .. NumSlots : \E v \in SlotDomain(i) : SetSlot(i, v)
    \/ LoadMultipleWildcards

SpecSlots == Init /\ [][NextSlots]_vars

\* Random selection by both loaders over unchanged files, in either mode
NextWild ==
    \/ LoadTextLine({<<" ", ".", "/", "a", " ">>}, {-1}, Seeds)
    \/ SetMode
    \/ SetSeed
    \/ \E i \in {1, NumSlots} : \E v \in FewSlotValues : SetSlot(i, v)
    \/ SetTemplate
    \/ LoadMultipleWildcards

SpecWild == Init /\ [][NextWild]_vars

\* MultiWildcardLoader with the template typed character by character
NextTemplate ==
    \/ SetMode
    \/ SetSeed
    \/ ClearTemplate
    \/ TypeTemplate
    \/ LoadMultipleWildcards

SpecTemplate == Init /\ [][NextTemplate]_vars

\* MultiWildcardLoader in both modes over files that are missing, empty or
\* unreadable, some of them removed between the calls
NextErrors ==
    \/ SetMode
    \/ \E i \in {1, 2} : \E v \in FailingSlotValues : SetSlot(i, v)
    \/ \E t \in FailingTemplates : SetWidgets([wc EXCEPT !.template_text = t])
    \/ DeleteFile(FilePlugB)
    \/ LoadMultipleWildcards

SpecErrors == Init /\ [][NextErrors]_vars

\* MultilineTextInput alone
NextInput ==
    \/ OutputText

SpecInput == Init /\ [][NextInput]_vars

\* The reload endpoint under any sequence of requests
NextApi ==
    \/ ReloadCsvEndpoint

SpecApi == Init /\ [][NextApi]_vars

\* IS_CHANGED asked again and again with any inputs
NextChanged ==
    \/ IsChanged

SpecChanged == Init /\ [][NextChanged]_vars

(***************************************************************************)
(* Claims about generate_prompt.  They speak of the state right after a    *)
(* call: ret holds what the call returned and inputs what it was passed.   *)
(***************************************************************************)
Called == ret # None

\* The file named by the call's csv_path is a valid CSV with more than csv_index rows
CsvPathValid ==
    /\ inputs.use_csv /\ inputs.csv_path # ""
    /\ PathExists(disk_csv, inputs.csv_path)
    /\ disk_csv[inputs.csv_path].parses
    /\ REQUIRED_COLUMNS \subseteq disk_csv[inputs.csv_path].columns
    /\ inputs.csv_index < Len(disk_csv[inputs.csv_path].rows)

\* The file named by the call's csv_path is missing, unreadable or lacks a required column
CsvPathInvalid ==
    /\ inputs.use_csv /\ inputs.csv_path # ""
    /\ \/ ~PathExists(disk_csv, inputs.csv_path)
       \/ ~disk_csv[inputs.csv_path].parses
       \/ ~(REQUIRED_COLUMNS \subseteq disk_csv[inputs.csv_path].columns)

\* 'GENDER, CHARACTER, COPYRIGHT' of row csv_index of the file at csv_path
RowText(path, index) ==
    LET row == disk_csv[path].rows[index + 1] IN
    row["GENDER"] \o <<", ">> \o row["CHARACTER"] \o <<", ">> \o row["COPYRIGHT"]

IsPrefix(p, s) == Len(p) <= Len(s) /\ SubSeq(s, 1, Len(p)) = p

\* The parts the claim lists, each << >> when it is switched off or empty
ClaimedParts ==
    << IF inputs.use_csv /\ inputs.csv_path # "" /\ ret[1].csv_entry # None
       THEN ret[1].csv_entry[1] ELSE << >>,
       IF inputs.use_rating THEN inputs.rating ELSE << >>,
       inputs.positive_prompt,
       IF inputs.use_good_tags
       THEN inputs.quality_good \o <<", ">> \o inputs.score_good ELSE << >>,
       IF inputs.use_bad_tags
       THEN inputs.quality_bad \o <<", ">> \o inputs.score_bad ELSE << >>,
       IF inputs.use_year THEN <<"year ", ToString(inputs.year)>> ELSE << >> >>

\* C1: the positive prompt is the ', '-join, in the order CSV entry, rating, base
\* prompt, good tags, bad tags, year, of the parts that are enabled and non-empty;
\* it is empty when every toggle is off and the base prompt is empty.
C1_PositivePrompt ==
    Called =>
        /\ ret[1].positive =
             Join(<<", ">>, SelectSeq(ClaimedParts, LAMBDA p : p # << >>))
        /\ ( /\ ~inputs.use_csv /\ ~inputs.use_rating /\ ~inputs.use_good_tags
             /\ ~inputs.use_bad_tags /\ ~inputs.use_year
             /\ inputs.positive_prompt = << >>
             => ret[1].positive = << >> )

\* C1's case: a call with every toggle on, a base prompt and a CSV entry found
C1_Witness ==
    /\ Called
    /\ inputs.use_csv /\ ret[1].csv_entry # None
    /\ inputs.use_rating /\ inputs.use_good_tags /\ inputs.use_bad_tags /\ inputs.use_year
    /\ inputs.positive_prompt # << >>

\* C2: a call with use_csv on and a csv_path naming a valid CSV with more than
\* csv_index rows puts 'GENDER, CHARACTER, COPYRIGHT' of row csv_index of that
\* file first in the positive prompt, whatever calls came before.
C2_EntryOfCurrentPath ==
    Called /\ CsvPathValid =>
        /\ ret[1].csv_entry = Some(RowText(inputs.csv_path, inputs.csv_index))
        /\ IsPrefix(RowText(inputs.csv_path, inputs.csv_index), ret[1].positive)

\* C3: a call with use_csv on and a csv_path whose file is missing, unreadable or
\* lacks a required column returns a positive prompt holding no CSV entry: it is
\* the join of the other enabled parts alone.
C3_NoEntryForBadPath ==
    Called /\ CsvPathInvalid =>
        /\ ret[1].csv_entry = None
        /\ ret[1].positive =
             Join(<<", ">>, SelectSeq(Tail(ClaimedParts), LAMBDA p : p # << >>))

\* C4: the negative prompt is the 16 default negative tags in their declared
\* order joined by ', ', then the user's negative_prompt when it is non-empty,
\* whatever the toggles, the CSV and the positive-side inputs are.
C4_NegativePrompt ==
    /\ Len(DEFAULT_NEGATIVE_TAGS) = 16
    /\ Called =>
         ret[1].negative =
           Join(<<", ">>, DEFAULT_NEGATIVE_TAGS)
           \o (IF inputs.negative_prompt # << >>
               THEN <<", ">> \o inputs.negative_prompt ELSE << >>)

\* C4's case: a call with the bad tags on, a CSV entry found and a user negative prompt
C4_Witness ==
    /\ Called
    /\ inputs.use_bad_tags /\ inputs.use_csv /\ ret[1].csv_entry # None
    /\ inputs.negative_prompt # << >>


(***************************************************************************)
(* Claims about the wildcard nodes.  out holds the last call since the     *)
(* files and widgets were last touched: its arguments, what it returned,   *)
(* and per load the file key and line list it selected from.               *)
(***************************************************************************)
LineCalled == out # None /\ out[1].op = "load_text_line"

WildCalled == out # None /\ out[1].op = "load_multiple_wildcards"

\* the file the last load_text_line call names
LinePath == normpath(strip(out[1].args.file_path))

FileOnDisk(p) == p \in DOMAIN disk_txt /\ disk_txt[p].exists

FileReadable(p) == FileOnDisk(p) /\ disk_txt[p].readable

\* the non-blank lines of the file now, trailing whitespace removed
FileLines(p) == NonBlankLines(disk_txt[p].content)

C5_RangeError(i, n) ==
    <<"Error: Line index ", ToString(i), " out of range (0-", ToString(n - 1), ")">>

\* what C5 says the call returns for index i over n non-blank lines of file p
C5_Expected(p, i, n) ==
    IF 0 <= i /\ i < n THEN <<FileLines(p)[i + 1]>> ELSE <<C5_RangeError(i, n)>>

\* C5 as stated: for every existing file and every line_index other than -1,
\* load_text_line returns the line_index-th non-blank line (trailing whitespace
\* removed) when 0 <= line_index < n, and the out-of-range error string otherwise.
C5_AnyExistingFile ==
    (LineCalled /\ out[1].args.line_index # -1 /\ FileOnDisk(LinePath)) =>
        out[1].result =
            C5_Expected(LinePath, out[1].args.line_index, Len(FileLines(LinePath)))

\* C5 amended: the same, for an existing file that can be read and holds at least
\* one non-blank line.
C5_IndexedLine ==
    (/\ LineCalled
     /\ out[1].args.line_index # -1
     /\ FileReadable(LinePath)
     /\ FileLines(LinePath) # << >>) =>
        out[1].result =
            C5_Expected(LinePath, out[1].args.line_index, Len(FileLines(LinePath)))

\* a call with line_index equal to the number of non-blank lines got the range error
C5_Witness ==
    /\ LineCalled
    /\ FileReadable(LinePath)
    /\ Len(FileLines(LinePath)) >= 2
    /\ out[1].args.line_index = Len(FileLines(LinePath))
    /\ out[1].loads[1].kind = "error"

\* the cache entry a fresh read of file p stores
FreshEntry(p) == [ lines |-> FileLines(p), mod_time |-> disk_txt[p].mtime ]

\* C6: after any interleaving of rewrites of a file (each with a new modification
\* time), removals, and calls of either loader, every load that got as far as a line
\* list used the file's current non-blank lines, and the cache then holds exactly
\* those lines with the file's current modification time; no cache entry carrying
\* the current modification time holds other lines.
C6_CurrentLines ==
    /\ out # None =>
          \A k \in 1 .. Len(out[1].loads) :
              LET ld == out[1].loads[k] IN
              ld.key # None =>
                  /\ FileReadable(ld.key[1])
                  /\ ld.lines = Some(FileLines(ld.key[1]))
                  /\ ld.key[1] \in DOMAIN text_file_cache
                  /\ text_file_cache[ld.key[1]] = FreshEntry(ld.key[1])
    /\ \A p \in DOMAIN text_file_cache :
          (FileOnDisk(p) /\ text_file_cache[p].mod_time = disk_txt[p].mtime) =>
              text_file_cache[p] = FreshEntry(p)

\* the shared file was rewritten with other lines, then loaded twice in a row by
\* MultiWildcardLoader: once read afresh, once from the cache
C6_Witness ==
    /\ WildCalled
    /\ prev # None
    /\ disk_txt[FileShared].mtime >= 1
    /\ Len(out[1].loads) = 1
    /\ out[1].loads[1].key = Some(FileShared)
    /\ Len(FileLines(FileShared)) >= 2
    /\ out[1].loads[1].kind = "line"

\* C7, the returned value: load_text_line always returns a one-element tuple; it
\* holds 'Error: File not found at <normalized path>' when the path names no
\* existing file, 'Error: File is empty' when the file has no non-blank line, and
\* 'Error loading file: <message>' when reading the file raises.
C7_Returned ==
    LineCalled =>
        /\ Len(out[1].result) = 1
        /\ ~FileOnDisk(LinePath) =>
               out[1].result = << <<"Error: File not found at ">> \o LinePath >>
        /\ (FileReadable(LinePath) /\ FileLines(LinePath) = << >>) =>
               out[1].result = << <<"Error: File is empty">> >>
        /\ (FileOnDisk(LinePath) /\ ~FileReadable(LinePath)) =>
               /\ Len(out[1].result[1]) >= 2
               /\ SubSeq(out[1].result[1], 1, 2)
                      = <<"Error loading file: ", "[Errno 13] Permission denied: ">>

\* C7, the cache: a call naming a missing file adds and changes no entry of
\* text_file_cache.
C7_CacheKept ==
    (/\ out' # None
     /\ out'[1].op = "load_text_line"
     /\ ~FileOnDisk(normpath(strip(out'[1].args.file_path)))) =>
        text_file_cache' = text_file_cache

\* C7: load_text_line never raises; each failure comes back as a one-element tuple
\* with the error string of its kind, and a call on a missing file leaves
\* text_file_cache as it was.
C7_ErrorsReturned == []C7_Returned /\ [][C7_CacheKept]_vars

\* a call on a file that cannot be read returned the 'Error loading file' string,
\* after other files had been cached
C7_Witness ==
    /\ LineCalled
    /\ FileOnDisk(LinePath) /\ ~FileReadable(LinePath)
    /\ out[1].loads[1].kind = "error"
    /\ text_file_cache # << >>

\* the k-th load of the last call picked its line at random
RandomLoad(k) ==
    CASE out[1].op = "load_text_line" -> out[1].args.line_index = -1
      [] out[1].args.mode = "template" -> TRUE
      [] OTHER -> out[1].args.slots[out[1].loads[k].slot].line_index = -1

Range(seq) == { seq[i] : i \in 1 .. Len(seq) }

\* C8: with a seed other than -1 and the files unchanged, a call of load_text_line
\* (line_index -1) or of load_multiple_wildcards that repeats the call before it,
\* same inputs, returns what that call returned; and every line picked at random,
\* seeded or not, is one of the current non-blank lines of its file.
C8_SeededRepeats ==
    /\ (out # None /\ prev # None /\ out[1].args.seed # -1) => out[1].result = prev[1]
    /\ out # None =>
          \A k \in 1 .. Len(out[1].loads) :
              (out[1].loads[k].kind = "line" /\ RandomLoad(k)) =>
                  /\ FileReadable(out[1].loads[k].key[1])
                  /\ out[1].loads[k].text \in Range(FileLines(out[1].loads[k].key[1]))

\* a seeded load_multiple_wildcards call repeated the one before it, and picked at
\* random from a file of several lines
C8_Witness ==
    /\ WildCalled
    /\ prev # None
    /\ out[1].args.seed # -1
    /\ \E k \in 1 .. Len(out[1].loads) :
          /\ out[1].loads[k].kind = "line"
          /\ RandomLoad(k)
          /\ Len(FileLines(out[1].loads[k].key[1])) >= 2

\* the template s from position i on, each placeholder occurrence replaced, left to
\* right, by the next of texts
RECURSIVE SubstituteFrom(_, _, _)
SubstituteFrom(s, i, texts) ==
    IF i > Len(s) THEN << >>
    ELSE IF s[i] = "{" /\ FirstClose(s, i + 1) >= i + 2
    THEN Head(texts) \o SubstituteFrom(s, FirstClose(s, i + 1) + 1, Tail(texts))
    ELSE <<s[i]>> \o SubstituteFrom(s, i + 1, texts)

\* C9: in template mode the returned text is the original template with its k-th
\* placeholder occurrence replaced by the k-th selected line or error string, all
\* text outside the placeholders kept, also when a placeholder repeats or a
\* selected line itself holds '{name}'; a template without placeholders is
\* returned unchanged.
C9_LeftToRight ==
    (WildCalled /\ out[1].args.mode = "template") =>
        /\ Len(out[1].loads) = Len(FindAllFrom(out[1].args.template_text, 1))
        /\ out[1].result[1] =
               SubstituteFrom(out[1].args.template_text, 1, Texts(out[1].loads))

\* a slot that C10 counts: enabled, with a path that is not blank
Qualifies(slot) == slot.enabled /\ \E i \in 1 .. Len(slot.path) : slot.path[i] \notin Whitespace

\* the numbers of the slots from i on that C10 counts, ascending
RECURSIVE QualifyingFrom(_, _)
QualifyingFrom(slots, i) ==
    IF i > Len(slots) THEN << >>
    ELSE IF Qualifies(slots[i]) THEN <<i>> \o QualifyingFrom(slots, i + 1)
    ELSE QualifyingFrom(slots, i + 1)

\* how the error strings of a slot's load begin
ErrorHeads ==
    { "Error: Empty file path", "Error: File not found at ", "Error: File ",
      "Error: Line index " }

C17_SeedByPosition ==
    WildCalled =>
        LET s == out[1].args.seed
            loads == out[1].loads
        IN  \A k \in 1 .. Len(loads) :
                /\ out[1].args.mode = "template" => loads[k].slot = k - 1
                /\ loads[k].seed = IF s = -1 THEN -1 ELSE s + loads[k].slot
                /\ (s # -1 /\ loads[k].kind = "line" /\ RandomLoad(k)) =>
                       loads[k].text =
                           loads[k].lines[1][RandBelow(s + loads[k].slot,
                                                       Len(loads[k].lines[1])) + 1]

\* a seeded slots-mode call that picks at random for two slots of one file and
\* takes different lines for them by their different seeds
C17_Witness ==
    /\ WildCalled
    /\ out[1].args.mode = "slots"
    /\ out[1].args.seed # -1
    /\ Len(out[1].loads) = 2
    /\ out[1].loads[1].key = out[1].loads[2].key
    /\ out[1].loads[1].kind = "line"
    /\ out[1].loads[2].kind = "line"
    /\ out[1].loads[1].text # out[1].loads[2].text

\* a seeded template-mode call with three placeholders filled
C17_TemplateWitness ==
    /\ WildCalled
    /\ out[1].args.mode = "template"
    /\ out[1].args.seed # -1
    /\ Len(out[1].loads) = 3
    /\ out[1].loads[3].kind = "line"

\* a load that found no file it could read, or a file without a non-blank line
FailedLoad(load) == load.key = None \/ load.lines = Some(<< >>)

\* C14: load_multiple_wildcards always returns a pair of two identical strings, in
\* both modes and on every error path; a wildcard file that is missing, unreadable
\* or empty shows as an 'Error...' string inside the returned text: whole, as one
\* of the joined parts, in slots mode, and by its beginning in template mode.
C14_ErrorsInText ==
    WildCalled =>
        /\ Len(out[1].result) = 2
        /\ out[1].result[1] = out[1].result[2]
        /\ out[1].result[1] \in Seq(STRING)
        /\ \A k \in 1 .. Len(out[1].loads) :
               FailedLoad(out[1].loads[k]) =>
                   /\ out[1].loads[k].text[1] \in ErrorHeads \cup {"Error loading "}
                   /\ out[1].args.mode = "slots" =>
                          FindFrom(out[1].result[1], out[1].loads[k].text, 1) # 0
                   /\ out[1].args.mode = "template" =>
                          \E j \in 1 .. Len(out[1].result[1]) :
                              out[1].result[1][j] = out[1].loads[k].text[1]

\* a template-mode call with a missing and an empty file
C14_Witness ==
    /\ WildCalled
    /\ out[1].args.mode = "template"
    /\ \E k \in 1 .. Len(out[1].loads) :
          out[1].loads[k].text[1] = "Error: File not found at "
    /\ \E k \in 1 .. Len(out[1].loads) :
          out[1].loads[k].lines = Some(<< >>)

\* a slots-mode call with a file that cannot be read and one removed after it
\* was cached
C14_SlotsWitness ==
    /\ WildCalled
    /\ out[1].args.mode = "slots"
    /\ \E k \in 1 .. Len(out[1].loads) : out[1].loads[k].text[1] = "Error loading "
    /\ \E k \in 1 .. Len(out[1].loads) :
          /\ out[1].loads[k].text[1] = "Error: File not found at "
          /\ FilePlugB \in DOMAIN text_file_cache

(***************************************************************************)
(* Claims about MultilineTextInput and the shared random generator.        *)
(***************************************************************************)
\* C11: output_text with use_dynamic_prompts false returns the one-element tuple of
\* its text, unchanged, for every text and seed, and leaves the global random
\* generator, last_execution_time and text_file_cache as they were.
C11_PassThrough ==
    [][ (/\ out' # None
         /\ out'[1].op = "output_text"
         /\ ~out'[1].args.use_dynamic_prompts) =>
            /\ out'[1].result = <<out'[1].args.text>>
            /\ rng' = rng
            /\ last_execution_time' = last_execution_time
            /\ text_file_cache' = text_file_cache ]_vars

\* a pass-through call of a text with a variant in it, made while the global
\* generator was seeded and last_execution_time held an entry
C11_Witness ==
    /\ out # None
    /\ out[1].op = "output_text"
    /\ ~out[1].args.use_dynamic_prompts
    /\ out[1].args.text = <<"{", "a", "|", "b", "}", " ", "c">>
    /\ out[1].result = <<out[1].args.text>>
    /\ rng # None
    /\ last_execution_time # << >>

\* C18: no call of output_text, load_text_line or load_multiple_wildcards returns
\* with the global random generator seeded by a user-chosen, drawn or time-derived
\* seed: on every path, error paths included, it has been re-seeded with
\* random.seed(None).
C18_GeneratorReseeded ==
    out # None => rng = None

(***************************************************************************)
(* Claims about the reload endpoint.                                       *)
(***************************************************************************)
\* C12: reload_csv_endpoint answers a JSON object with a non-empty csv_path with
\* the node's reload result, status 200 when it succeeded and 400 when it reported
\* failure; a missing or empty csv_path with status 400 and error 'csv_path is
\* required'; a body that is not JSON with status 400.
C12_ReloadAnswered ==
    response # None =>
        LET rq == response[1].request
            st == response[1].status
        IN  CASE rq.kind = "invalid" -> st = 400
              [] rq.kind = "object" /\ rq.csv_path \in { None, Some("") } ->
                    st = 400 /\ response[1].body.error = <<"csv_path is required">>
              [] rq.kind = "object" ->
                    /\ st \in { 200, 400 }
                    /\ (st = 200) = response[1].body.success
              [] OTHER -> TRUE

(***************************************************************************)
(* Claims about CSVHandler's methods called directly.                      *)
(***************************************************************************)
HandlerCalled(op) == handler_call # None /\ handler_call[1].op = op

\* C13: get_entry returns an entry only when a CSV is loaded and
\* 0 <= index < number of rows; for every other index, too large or negative, and
\* when no CSV is loaded, it returns None.
C13_EntryOnlyInRange ==
    HandlerCalled("get_entry") =>
        LET before == handler_call[1].before
            index  == handler_call[1].arg
            InRange == /\ before.current_data # None
                       /\ 0 <= index
                       /\ index < Len(before.current_data[1].rows)
        IN  (handler_call[1].result # None) <=> InRange

\* C15: load_csv caches only successful loads, keyed by path: a load of a cached
\* path returns the cached frame whatever the file has become and changes
\* nothing; a load that fails validation or raises returns None and leaves cache
\* and current_data as they were; a successful load returns the frame read,
\* caches it under its path and makes it the current data.
C15_CachesSuccessfulLoads ==
    HandlerCalled("load_csv") =>
        LET before == handler_call[1].before
            path   == handler_call[1].arg
            result == handler_call[1].result
            file   == disk_csv[path]
            Loads  == /\ path \in DOMAIN disk_csv
                      /\ file.exists /\ file.parses
                      /\ {"GENDER", "CHARACTER", "COPYRIGHT"} \subseteq file.columns
        IN  /\ path \in DOMAIN before.cache =>
                 /\ result = <<before.cache[path]>>
                 /\ Handler = before
            /\ path \notin DOMAIN before.cache /\ ~Loads =>
                 /\ result = None
                 /\ Handler = before
            /\ path \notin DOMAIN before.cache /\ Loads =>
                 /\ result = << [ columns |-> file.columns, rows |-> file.rows ] >>
                 /\ DOMAIN cache = DOMAIN before.cache \cup {path}
                 /\ cache[path] = result[1]
                 /\ \A p \in DOMAIN before.cache : cache[p] = before.cache[p]
                 /\ current_data = result

\* a cached path whose file is gone is loaded again and answers the cached frame
C15_Witness ==
    /\ HandlerCalled("load_csv")
    /\ handler_call[1].arg \in DOMAIN handler_call[1].before.cache
    /\ ~disk_csv[handler_call[1].arg].exists
    /\ handler_call[1].result # None

\* a load fails while another frame is cached and current
C15_FailedWitness ==
    /\ HandlerCalled("load_csv")
    /\ handler_call[1].result = None
    /\ current_data # None
    /\ cache # << >>

\* C16: validate_csv_structure returns True exactly when the file exists, parses
\* as CSV and its header contains GENDER, CHARACTER and COPYRIGHT, extra columns
\* allowed; otherwise it returns False.
C16_ValidExactly ==
    HandlerCalled("validate_csv_structure") =>
        LET path == handler_call[1].arg
            file == disk_csv[path]
        IN  /\ handler_call[1].result \in BOOLEAN
            /\ handler_call[1].result <=>
                   /\ path \in DOMAIN disk_csv
                   /\ file.exists
                   /\ file.parses
                   /\ \A col \in {"GENDER", "CHARACTER", "COPYRIGHT"} : col \in file.columns

\* a file with an extra column is found valid
C16_Witness ==
    /\ HandlerCalled("validate_csv_structure")
    /\ handler_call[1].result = TRUE
    /\ "NOTES" \in disk_csv[handler_call[1].arg].columns

(***************************************************************************)
(* Claims about MultiWildcardLoader.IS_CHANGED.                            *)
(***************************************************************************)
\* the inputs as IS_CHANGED counts them: a slot input that is missing is its default
EffectiveInputs(in) ==
    [ mode |-> in.mode, template_text |-> in.template_text, separator |-> in.separator,
      seed |-> in.seed,
      slots |-> [ i \in 1 .. NumSlots |->
                    [ path |-> kwargs_get(in.kwargs, WildcardKey(i, "path"), << >>),
                      enabled |-> kwargs_get(in.kwargs, WildcardKey(i, "enabled"), TRUE),
                      line_index |-> kwargs_get(in.kwargs, WildcardKey(i, "line_index"), -1) ] ] ]

\* C19: two calls of IS_CHANGED return the same value exactly when their inputs
\* are the same, the hash taken as free of collisions: mode, template_text,
\* separator, seed and every slot's path, enabled flag and line_index, a missing
\* slot input counting as path '', enabled True, line_index -1.
C19_ChangeDetected ==
    Len(is_changed) = 2 =>
        ( (is_changed[1].value = is_changed[2].value)
          <=> (EffectiveInputs(is_changed[1].inputs) = EffectiveInputs(is_changed[2].inputs)) )

\* the part of C19 that holds: equal inputs, missing slot inputs counted as
\* their defaults, give equal values
C19_SameInputsSameValue ==
    Len(is_changed) = 2 =>
        ( (EffectiveInputs(is_changed[1].inputs) = EffectiveInputs(is_changed[2].inputs))
          => (is_changed[1].value = is_changed[2].value) )
====
